---- MODULE Spec2Model ----
(***************************************************************************)
(* DynaPM gateway: the per-service state machine, the single-flight start  *)
(* of ServiceManager, HTTP forwarding with active-connection accounting,   *)
(* WebSocket sessions and the idle reaper.                                 *)
(*                                                                         *)
(* One service is modelled.  A step of the model is one event-loop task of *)
(* the Node.js process: an I/O completion, a timer or an inbound event,    *)
(* together with all the synchronous code and promise continuations it     *)
(* runs before the next task.                                              *)
(***************************************************************************)
EXTENDS Integers, Sequences, FiniteSets, TLC

\* ---------------------------------------------------------------- bounds
NProc == 2           \* HTTP requests and WebSocket sessions of a run
MaxTime == 3         \* last instant of the clock, in units of the reaper's tick
MaxMsgs == 2         \* WebSocket messages per direction, over the sessions of a run
MaxHeaderLen == 2    \* characters of a client header value
MaxChunks == 2       \* body chunks the upstream sends, over the requests of a run
NCallers == 3        \* requests whose calls of ServiceManager.start overlap
MaxHostLen == 3      \* characters of a Host header value

Procs == 1..NProc
Callers == 1..NCallers
Hosts == {"app.test", "other.test"}   \* Host headers seen on the main listener
NoRoute == "none"    \* hostnameRoutes.get finds no mapping
None == 0            \* Map.get finds no entry
idleTimeout == 1     \* service.idleTimeout, in units of the reaper's tick

VARIABLES
    \* service._state
    status,             \* "offline" | "starting" | "online" | "stopping"
    activeConnections,
    startCount,
    startTime,          \* TRUE when startTime is defined
    lastAccessTime,
    proxyOnly,          \* service.proxyOnly (configuration)
    \* Gateway
    hostnameRoutes,     \* Host -> the service it is routed to, or NoRoute
    cleaningUp,         \* Gateway.cleanup has been called
    \* ServiceManager
    startingLocks,      \* owner of the promise stored under the service name, or None
    lockState,          \* per promise (named by its owner): none|checking|executing|resolved|rejected
    awaiting,           \* the promise a caller of start() awaits (another caller's), or None
    lockWaiters,        \* callers awaiting another caller's promise, in registration order
    \* one entry per HTTP request / WebSocket session
    kind,               \* "none" | "http" | "ws" | "admin" (a call of the admin API)
    pc,
    adminPoll,          \* AdminApiHandler.startService: none|polling|done
    clientGone,         \* HTTP: the client aborted; WebSocket: the client socket closed
    cleaned,            \* the `cleaned` guard of forwardProxyRequest
    resp,               \* first status line written to the client: none|upstream|500|502|503
    ended,              \* res.end() was called
    wrote,              \* what was written to the response: "status", "chunk" (upstream
                        \* body), "text" (a body of the gateway's own), "end"
    proxyResPaused,     \* proxyRes.pause() without a later resume()
    \* WebSocket bridge, one entry per session
    wsListener,         \* "main" | "port": the listener the WebSocket sessions arrive on
    messageQueue,       \* wsState.messageQueue
    backendPaused,      \* backendWs.pause() without a later resume()
    clientCongested,    \* the client socket (WebSocket or HTTP response) holds unsent
                        \* data (backpressure)
    clientSent,         \* messages the client sent, in order
    upstreamGot,        \* messages the upstream received, in order
    upstreamSent,       \* messages the upstream sent, in order
    clientGot,          \* messages accepted by the client socket, in order
    \* request headers on their way to the upstream
    headerPath,         \* "none" | "http_main" | "http_port" | "ws_main" | "ws_port"
    rawHeaders,         \* the header values as the client sent them
    headers,            \* the `headers` / `clientHeaders` record built by req.forEach
    sentHeaders,        \* the headers of the upstream request / handshake
    \* route selection on the main listener, one entry per request / session
    hostHeader,         \* req.getHeader('host') as the client sent it
    mapping,            \* what hostnameRoutes.get returned: "unset" | NoRoute | a service
    \* environment
    up,                 \* the upstream accepts TCP connections
    launched,           \* the start command has put the process in place
    stopsInFlight,      \* stop commands running
    now,                \* Date.now()
    \* history
    held,               \* increments minus decrements of activeConnections made for the entry
    arrivedStatus,      \* status read when the request arrived / the socket opened
    host,               \* the Host header of a request that found no route
    arrivedAt,          \* Date.now() when the request arrived / the upgrade was received
    calledStart,        \* the entry called ServiceManager.start
    outcome,            \* none|start_failed|ready_timeout|stop_timeout|online
    startCmdCount,      \* executions of commands.start
    stopCmdCount,       \* executions of commands.stop
    epCmds,             \* executions of commands.start among the current overlapping start() calls
    epOut,              \* outcomes seen by the callers of the current overlapping start() calls
    envFault            \* the environment misbehaved (command failure, upstream error, abort, timeout)

vars == <<status, activeConnections, startCount, startTime, lastAccessTime, proxyOnly,
          startingLocks, lockState, awaiting, lockWaiters,
          kind, pc, adminPoll, clientGone, cleaned, resp, ended, wrote, proxyResPaused,
          up, launched, stopsInFlight, now,
          hostnameRoutes, host, cleaningUp,
          headerPath, rawHeaders, headers, sentHeaders,
          hostHeader, mapping,
          wsListener, messageQueue, backendPaused, clientCongested,
          clientSent, upstreamGot, upstreamSent, clientGot,
          held, arrivedStatus, arrivedAt, calledStart, outcome,
          startCmdCount, stopCmdCount, epCmds, epOut, envFault>>

\* The state as one record, so that the handlers compose like the code does.
St == [status |-> status, activeConnections |-> activeConnections,
       startCount |-> startCount, startTime |-> startTime,
       lastAccessTime |-> lastAccessTime, proxyOnly |-> proxyOnly,
       now |-> now, arrivedAt |-> arrivedAt,
       hostnameRoutes |-> hostnameRoutes, host |-> host, cleaningUp |-> cleaningUp,
       headerPath |-> headerPath, rawHeaders |-> rawHeaders,
       headers |-> headers, sentHeaders |-> sentHeaders,
       hostHeader |-> hostHeader, mapping |-> mapping,
       wsListener |-> wsListener, messageQueue |-> messageQueue,
       backendPaused |-> backendPaused, clientCongested |-> clientCongested,
       clientSent |-> clientSent, upstreamGot |-> upstreamGot,
       upstreamSent |-> upstreamSent, clientGot |-> clientGot,
       startingLocks |-> startingLocks, lockState |-> lockState,
       awaiting |-> awaiting, lockWaiters |-> lockWaiters,
       kind |-> kind, pc |-> pc, adminPoll |-> adminPoll, clientGone |-> clientGone,
       cleaned |-> cleaned, resp |-> resp, ended |-> ended, wrote |-> wrote,
       proxyResPaused |-> proxyResPaused,
       up |-> up, launched |-> launched, stopsInFlight |-> stopsInFlight,
       held |-> held, arrivedStatus |-> arrivedStatus,
       calledStart |-> calledStart, outcome |-> outcome,
       startCmdCount |-> startCmdCount, stopCmdCount |-> stopCmdCount,
       epCmds |-> epCmds, epOut |-> epOut,
       envFault |-> envFault]

Commit(s) ==
    /\ status' = s.status
    /\ activeConnections' = s.activeConnections
    /\ startCount' = s.startCount
    /\ startTime' = s.startTime
    /\ lastAccessTime' = s.lastAccessTime
    /\ proxyOnly' = s.proxyOnly
    /\ now' = s.now
    /\ arrivedAt' = s.arrivedAt
    /\ hostnameRoutes' = s.hostnameRoutes
    /\ host' = s.host
    /\ cleaningUp' = s.cleaningUp
    /\ headerPath' = s.headerPath
    /\ rawHeaders' = s.rawHeaders
    /\ headers' = s.headers
    /\ sentHeaders' = s.sentHeaders
    /\ hostHeader' = s.hostHeader
    /\ mapping' = s.mapping
    /\ wsListener' = s.wsListener
    /\ messageQueue' = s.messageQueue
    /\ backendPaused' = s.backendPaused
    /\ clientCongested' = s.clientCongested
    /\ clientSent' = s.clientSent
    /\ upstreamGot' = s.upstreamGot
    /\ upstreamSent' = s.upstreamSent
    /\ clientGot' = s.clientGot
    /\ startingLocks' = s.startingLocks
    /\ lockState' = s.lockState
    /\ awaiting' = s.awaiting
    /\ lockWaiters' = s.lockWaiters
    /\ pc' = s.pc
    /\ adminPoll' = s.adminPoll
    /\ kind' = s.kind
    /\ clientGone' = s.clientGone
    /\ cleaned' = s.cleaned
    /\ resp' = s.resp
    /\ ended' = s.ended
    /\ wrote' = s.wrote
    /\ proxyResPaused' = s.proxyResPaused
    /\ up' = s.up
    /\ launched' = s.launched
    /\ stopsInFlight' = s.stopsInFlight
    /\ held' = s.held
    /\ arrivedStatus' = s.arrivedStatus
    /\ calledStart' = s.calledStart
    /\ outcome' = s.outcome
    /\ startCmdCount' = s.startCmdCount
    /\ stopCmdCount' = s.stopCmdCount
    /\ epCmds' = s.epCmds
    /\ epOut' = s.epOut
    /\ envFault' = s.envFault

\* initServices: a proxyOnly service begins online (its upstream is run by
\* someone else), any other service offline.  P is the set of the requests and
\* sessions of the run.
InitFor(po, P) ==
    /\ status = (IF po THEN "online" ELSE "offline")
    /\ activeConnections = 0
    /\ startCount = 0
    /\ startTime = FALSE
    /\ lastAccessTime = 0
    /\ proxyOnly = po
    /\ now = 0
    /\ arrivedAt = [p \in P |-> 0]
    /\ hostnameRoutes = [h \in Hosts |-> IF h = "app.test" THEN "app" ELSE NoRoute]
    /\ host = [p \in P |-> "none"]
    /\ cleaningUp = FALSE
    /\ headerPath = "none"
    /\ rawHeaders = <<>>
    /\ headers = <<>>
    /\ sentHeaders = <<>>
    /\ hostHeader = [p \in P |-> <<>>]
    /\ mapping = [p \in P |-> "unset"]
    /\ messageQueue = [p \in P |-> <<>>]
    /\ backendPaused = [p \in P |-> FALSE]
    /\ clientCongested = [p \in P |-> FALSE]
    /\ clientSent = [p \in P |-> <<>>]
    /\ upstreamGot = [p \in P |-> <<>>]
    /\ upstreamSent = [p \in P |-> <<>>]
    /\ clientGot = [p \in P |-> <<>>]
    /\ startingLocks = None
    /\ lockState = [p \in P |-> "none"]
    /\ awaiting = [p \in P |-> None]
    /\ lockWaiters = <<>>
    /\ pc = [p \in P |-> "idle"]
    /\ adminPoll = [p \in P |-> "none"]
    /\ kind = [p \in P |-> "none"]
    /\ clientGone = [p \in P |-> FALSE]
    /\ cleaned = [p \in P |-> FALSE]
    /\ resp = [p \in P |-> "none"]
    /\ ended = [p \in P |-> FALSE]
    /\ wrote = [p \in P |-> <<>>]
    /\ proxyResPaused = [p \in P |-> FALSE]
    /\ up = po
    /\ launched = po
    /\ stopsInFlight = 0
    /\ held = [p \in P |-> 0]
    /\ arrivedStatus = [p \in P |-> "none"]
    /\ calledStart = [p \in P |-> FALSE]
    /\ outcome = [p \in P |-> "none"]
    /\ startCmdCount = 0
    /\ stopCmdCount = 0
    /\ epCmds = 0
    /\ epOut = {}
    /\ envFault = FALSE

InitOf(po) == InitFor(po, Procs)

Init == InitOf(FALSE) /\ wsListener = "main"

\* ------------------------------------------------- uWebSockets.js objects

\* A uWS HttpResponse may be used until the client aborted or res.end() ran;
\* any later call on it throws.
resValidAfterEnd(s, r) == ~s.clientGone[r]

resValid(s, r) == ~s.clientGone[r] /\ ~s.ended[r]

\* res.writeStatus(code): uWebSockets.js writes the first status line only.
writeStatus(s, r, code) ==
    IF s.resp[r] = "none"
    THEN [s EXCEPT !.resp[r] = code, !.wrote[r] = Append(@, "status")]
    ELSE s

\* res.end(): with a body when the gateway answers in its own name, without
\* one when it passes the upstream's response on.
end(s, r, code) ==
    [s EXCEPT !.ended[r] = TRUE,
              !.wrote[r] = @ \o (IF code = "upstream" THEN <<"end">> ELSE <<"text", "end">>)]

\* res.cork(() => { res.writeStatus(code); res.end(...) }): on a discarded
\* response the call throws and nothing reaches the client.
respond(s, r, code) ==
    IF resValid(s, r) THEN end(writeStatus(s, r, code), r, code) ELSE s

\* The close handler of the client WebSocket.  On the main listener it closes
\* an open backend socket; on a port-bound listener it only decrements.
wsCloseHandler(s, w) ==
    [s EXCEPT !.activeConnections = @ - 1,
              !.held[w] = @ - 1,
              !.clientGone[w] = TRUE,
              !.pc[w] = IF @ = "ws_bridged"
                        THEN (IF s.wsListener = "port" THEN "ws_orphan" ELSE "done")
                        ELSE @]

\* ws.close() called by the gateway: runs the close handler once; on a socket
\* that is already closed the call throws.
wsClose(s, w) == IF s.clientGone[w] THEN s ELSE wsCloseHandler(s, w)

\* ------------------------------------------------------- forwardProxyRequest
cleanupUnguarded(s, r) ==
    [s EXCEPT !.cleaned[r] = TRUE, !.activeConnections = @ - 1, !.held[r] = @ - 1]

cleanup(s, r) ==
    IF ~s.cleaned[r]
    THEN [s EXCEPT !.cleaned[r] = TRUE, !.activeConnections = @ - 1, !.held[r] = @ - 1]
    ELSE s

\* The catch of startServiceAndProxy.
startServiceAndProxy_catch(s, r) ==
    [respond(s, r, "503") EXCEPT !.pc[r] = "done"]

\* The .catch of handleDirectProxy (its `aborted` flag is the client's abort).
handleDirectProxy_catch(s, r) ==
    [(IF ~s.clientGone[r] THEN respond(s, r, "500") ELSE s) EXCEPT !.pc[r] = "done"]

\* The promise of forwardProxyRequest rejected: the caller's handler runs.
forwardRejected(s, r) ==
    IF s.calledStart[r] THEN startServiceAndProxy_catch(s, r)
    ELSE handleDirectProxy_catch(s, r)

forwardProxyRequestUnchecked(s, r) ==
    [s EXCEPT !.activeConnections = @ + 1, !.held[r] = @ + 1, !.pc[r] = "fwd"]

\* Up to the upstream request being issued.  res.onAborted on a response whose
\* client is already gone throws inside the promise executor: the promise
\* rejects before any upstream request exists.
forwardProxyRequest(s, r) ==
    LET s1 == [s EXCEPT !.activeConnections = @ + 1, !.held[r] = @ + 1]
    IN IF s.clientGone[r]
       THEN forwardRejected(s1, r)
       ELSE [s1 EXCEPT !.pc[r] = "fwd"]

\* --------------------------------------------------------- ServiceManager
InFlightStart(s) == \E p \in DOMAIN s.pc : s.pc[p] \in {"sm_await", "sm_wcheck", "sm_own"}

\* lock = (async () => {...})(); startingLocks.set(name, lock); await lock
createLock(s, p) ==
    [s EXCEPT !.lockState[p] = "checking", !.startingLocks = p, !.pc[p] = "sm_own"]

ServiceManager_start(s, p) ==
    LET s0 == IF InFlightStart(s) THEN s ELSE [s EXCEPT !.epCmds = 0, !.epOut = {}]
    IN IF s0.startingLocks # None
       THEN [s0 EXCEPT !.pc[p] = "sm_await",
                       !.awaiting[p] = s0.startingLocks,
                       !.lockWaiters = Append(@, p)]
       ELSE createLock(s0, p)

\* The WebSocket open handler's catch.
wsOpen_catch(s, w) == [wsClose(s, w) EXCEPT !.pc[w] = "done"]

\* `await this.serviceManager.start(service)` returned or threw in its caller.
adminStartSettled(s, p, ok) ==
    IF ok THEN [s EXCEPT !.pc[p] = "done"]
    ELSE [s EXCEPT !.status = "offline", !.outcome[p] = "start_failed", !.pc[p] = "done"]

startReturned(s, p, ok) ==
    LET s1 == [s EXCEPT !.epOut = @ \cup {ok}]
    IN IF s.kind[p] = "admin" THEN adminStartSettled(s1, p, ok)
       ELSE IF ok THEN [s1 EXCEPT !.pc[p] = "ready_wait"]
       ELSE LET s2 == [s1 EXCEPT !.outcome[p] = "start_failed"]
            IN IF s.kind[p] = "http" THEN startServiceAndProxy_catch(s2, p) ELSE wsOpen_catch(s2, p)

\* A caller that awaited another caller's promise resumes.
wakeWaiter(s, q, ok) ==
    LET s1 == [s EXCEPT !.awaiting[q] = None,
                        !.lockWaiters = SelectSeq(@, LAMBDA x : x # q)]
    IN IF ok
       THEN [s1 EXCEPT !.pc[q] = "sm_wcheck"]
       ELSE createLock([s1 EXCEPT !.startingLocks = None], q)

RECURSIVE wakeAll(_, _, _)
wakeAll(s, ws, ok) ==
    IF ws = <<>> THEN s ELSE wakeAll(wakeWaiter(s, Head(ws), ok), Tail(ws), ok)

\* The promise of owner p settles: its finally removes the map entry, then the
\* owner and every waiter resume, in the order they began to await.
settleLock(s, p, ok) ==
    LET s1 == [s EXCEPT !.startingLocks = None,
                        !.lockState[p] = IF ok THEN "resolved" ELSE "rejected"]
        s2 == startReturned(s1, p, ok)
    IN wakeAll(s2, SelectSeq(s.lockWaiters, LAMBDA q : s.awaiting[q] = p), ok)

\* ------------------------------------------------------ pull-up (gateway)
needsStartMainAlsoStarting(st) == st # "online"

needsStartMain(st) == st = "offline" \/ st = "stopping"

needsStartPortAlsoOnline(st) == st = "offline" \/ st = "online"

needsStartPort(st) == st = "offline"

needsStartWs(st) == st = "offline"

startServiceAndProxy(s, r) ==
    ServiceManager_start([s EXCEPT !.status = "starting", !.calledStart[r] = TRUE], r)

connectBackend(s, w) ==
    [s EXCEPT !.pc[w] = "ws_connecting"]

becomeOnline(s, p) ==
    [s EXCEPT !.status = "online", !.startTime = TRUE, !.startCount = @ + 1,
              !.outcome[p] = "online"]

readyOk(s, p) ==
    IF s.kind[p] = "http" THEN forwardProxyRequest(becomeOnline(s, p), p)
    ELSE connectBackend(becomeOnline(s, p), p)

readyTimeoutKeepsStatus(s, p) ==
    LET s1 == [s EXCEPT !.outcome[p] = "ready_timeout"]
    IN IF s.kind[p] = "http" THEN startServiceAndProxy_catch(s1, p)
       ELSE [wsClose(s1, p) EXCEPT !.pc[p] = "done"]

readyTimeout(s, p) ==
    LET s1 == [s EXCEPT !.status = "offline", !.outcome[p] = "ready_timeout"]
    IN IF s.kind[p] = "http" THEN startServiceAndProxy_catch(s1, p)
       ELSE [wsClose(s1, p) EXCEPT !.pc[p] = "done"]

\* ---------------------------------------------------------------- actions
\* Requests and sessions are interchangeable: they are numbered in the order
\* they arrive.
MayArrive(p) == pc[p] = "idle" /\ \A q \in DOMAIN pc : q < p => pc[q] # "idle"

arriveWithoutTouch(s, p, k) ==
    [s EXCEPT !.kind[p] = k, !.arrivedStatus[p] = s.status, !.arrivedAt[p] = s.now]

arrive(s, p, k) ==
    [s EXCEPT !.kind[p] = k, !.arrivedStatus[p] = s.status,
              !.lastAccessTime = s.now, !.arrivedAt[p] = s.now]

\* handleRequest once the route is found: the access time is updated and the
\* body handler chosen by the status.
handleRequest_found(s, r) ==
    [arrive(s, r, "http") EXCEPT !.pc[r] =
        IF needsStartMain(s.status)
        THEN (IF s.status = "stopping" THEN "body_wait" ELSE "body_start")
        ELSE "body_direct"]

\* handleRequest: a request on the main listener whose Host has a route.
handleRequest(r) ==
    /\ MayArrive(r)
    /\ \E h \in Hosts :
          /\ hostnameRoutes[h] # NoRoute
          /\ Commit(handleRequest_found(St, r))

\* handleRequest when hostnameRoutes has no mapping for the Host: 404 and return.
notFoundTouchesService(s, r, h) ==
    [respond([s EXCEPT !.kind[r] = "http", !.host[r] = h, !.lastAccessTime = s.now], r, "404")
        EXCEPT !.pc[r] = "done"]

notFound(s, r, h) ==
    [respond([s EXCEPT !.kind[r] = "http", !.host[r] = h], r, "404")
        EXCEPT !.pc[r] = "done"]

handleRequest_notFound(r) ==
    /\ MayArrive(r)
    /\ \E h \in Hosts :
          /\ hostnameRoutes[h] = NoRoute
          /\ Commit(notFound(St, r, h))

\* handlePortBindingRequest: a request on the port-bound listener.
handlePortBindingRequest(r) ==
    /\ MayArrive(r)
    /\ Commit([arrive(St, r, "http") EXCEPT !.pc[r] =
            IF needsStartPort(status) THEN "body_start" ELSE "body_direct"])

\* onData(isLast) registered by handleServiceStart.
handleServiceStart_onData(r) ==
    /\ pc[r] = "body_start" /\ ~clientGone[r]
    /\ Commit(startServiceAndProxy(St, r))

\* onData(isLast) registered by handleServiceWithWait: the polling loop begins.
handleServiceWithWait_onData(r) ==
    /\ pc[r] = "body_wait" /\ ~clientGone[r]
    /\ Commit(IF status = "stopping" THEN [St EXCEPT !.pc[r] = "stop_wait"]
              ELSE startServiceAndProxy(St, r))

\* The polling loop of handleServiceWithWait finds the service still stopping
\* after maxWaitTime.
handleServiceWithWait_timeout(r) ==
    /\ pc[r] = "stop_wait" /\ status = "stopping"
    /\ Commit([respond(St, r, "503") EXCEPT !.pc[r] = "done",
                                            !.outcome[r] = "stop_timeout",
                                            !.envFault = TRUE])

\* The polling loop of handleServiceWithWait finds the service no longer stopping.
handleServiceWithWait_resume(r) ==
    /\ pc[r] = "stop_wait" /\ status # "stopping"
    /\ Commit(IF clientGone[r] THEN [St EXCEPT !.pc[r] = "done"]
              ELSE startServiceAndProxy(St, r))

\* onData(isLast) registered by handleDirectProxy.
handleDirectProxy_onData(r) ==
    /\ pc[r] = "body_direct" /\ ~clientGone[r]
    /\ Commit(forwardProxyRequest(St, r))

\* The client aborts before forwardProxyRequest registered its own handler:
\* only the `aborted` flag of the body handler is set.
onAborted_early(r) ==
    /\ kind[r] = "http" /\ ~clientGone[r] /\ ~ended[r]
    /\ pc[r] \in {"body_start", "body_wait", "body_direct", "stop_wait",
                  "sm_await", "sm_wcheck", "sm_own", "ready_wait"}
    /\ Commit([St EXCEPT !.clientGone[r] = TRUE, !.envFault = TRUE,
                         !.pc[r] = IF @ \in {"body_start", "body_wait", "body_direct"}
                                   THEN "done" ELSE @])

\* The onAborted handler of forwardProxyRequest.
onAborted_forward(r) ==
    /\ pc[r] \in {"fwd", "streaming"} /\ ~clientGone[r]
    /\ Commit([cleanup([St EXCEPT !.clientGone[r] = TRUE, !.envFault = TRUE], r)
                  EXCEPT !.pc[r] = "fwd_gone"])

\* The upstream answers: 101 ends the response at once, any other status
\* starts the streaming of the body.
upstreamResponse(r, code) ==
    /\ pc[r] = "fwd" /\ up
    /\ Commit(IF code = "101"
              THEN [cleanup(respond(St, r, "upstream"), r) EXCEPT !.pc[r] = "done"]
              ELSE [writeStatus(St, r, "upstream") EXCEPT !.pc[r] = "streaming"])

\* The chunks written to the responses so far.
chunksWritten(s) ==
    Cardinality({<<r, i>> \in Procs \X (1..(2 * MaxChunks + 4)) :
                    i <= Len(s.wrote[r]) /\ s.wrote[r][i] = "chunk"})

\* res.write(chunk) says whether the chunk went out without backpressure.
WriteResults(s, r) == IF s.clientCongested[r] THEN {FALSE} ELSE BOOLEAN

\* proxyRes 'data': the chunk is written; when the write reports backpressure
\* the upstream stream is paused and the onWritable callback registered.
proxyResDataHandler(s, r, writeSuccess) ==
    LET s1 == [s EXCEPT !.wrote[r] = Append(@, "chunk")]
    IN IF writeSuccess THEN s1
       ELSE [s1 EXCEPT !.proxyResPaused[r] = TRUE, !.clientCongested[r] = TRUE]

proxyResData(r, writeSuccess) ==
    /\ pc[r] = "streaming" /\ ~proxyResPaused[r]
    /\ chunksWritten(St) < MaxChunks
    /\ writeSuccess \in WriteResults(St, r)
    /\ Commit(proxyResDataHandler(St, r, writeSuccess))

onWritableNoResume(s, r) == s

\* The callback given to res.onWritable: proxyRes.resume(); return true.
onWritableHandler(s, r) == [s EXCEPT !.proxyResPaused[r] = FALSE]

\* The client's socket has drained: uWebSockets.js calls the onWritable
\* callback.
onWritable(r) ==
    /\ pc[r] = "streaming" /\ clientCongested[r]
    /\ Commit(onWritableHandler([St EXCEPT !.clientCongested[r] = FALSE], r))

\* proxyRes 'end' (a paused stream emits none).
upstreamEnd(r) ==
    /\ pc[r] = "streaming" /\ ~proxyResPaused[r]
    /\ Commit([cleanup(respond(St, r, "upstream"), r) EXCEPT !.pc[r] = "done"])

\* proxyReq 'error' before a response (connection refused while the upstream
\* is down, or a transport fault).
proxyReqError(r) ==
    /\ pc[r] = "fwd"
    /\ Commit(forwardRejected(
           cleanup(respond([St EXCEPT !.envFault = @ \/ up], r, "502"), r), r))

\* proxyRes 'error' while the body streams.
proxyResError(r) ==
    /\ pc[r] = "streaming"
    /\ Commit(forwardRejected(
           cleanup(respond([St EXCEPT !.envFault = TRUE], r, "502"), r), r))

\* An 'error' of the upstream request destroyed by the abort handler.
lateUpstreamError(r) ==
    /\ pc[r] = "fwd_gone"
    /\ Commit([cleanup(St, r) EXCEPT !.pc[r] = "done"])

\* The isRunning check at the head of the start promise completes.
isRunningDone_owner(p, running) ==
    /\ lockState[p] = "checking"
    /\ Commit(LET s == [St EXCEPT !.envFault = @ \/ (running # launched)]
              IN IF running THEN settleLock(s, p, TRUE)
                 ELSE [s EXCEPT !.lockState[p] = "executing",
                                !.startCmdCount = @ + 1,
                                !.epCmds = @ + 1])

\* commands.start exits.
startCommandDone(p, exitOk) ==
    /\ lockState[p] = "executing"
    /\ Commit(settleLock([St EXCEPT !.launched = @ \/ exitOk,
                                    !.envFault = @ \/ ~exitOk], p, exitOk))

\* The isRunning check of a caller that awaited another caller's promise.
isRunningDone_waiter(q, running) ==
    /\ pc[q] = "sm_wcheck"
    /\ Commit(LET s == [St EXCEPT !.envFault = @ \/ (running # launched)]
              IN IF running THEN startReturned(s, q, TRUE)
                 ELSE createLock([s EXCEPT !.startingLocks = None], q))

\* checkTcpPort connects: the readiness loop ends.
checkTcpPort_ready(p) ==
    /\ pc[p] = "ready_wait" /\ up
    /\ Commit(readyOk(St, p))

\* checkTcpPort keeps failing until startTimeout has passed.
checkTcpPort_timeout(p) ==
    /\ pc[p] = "ready_wait" /\ ~up
    /\ Commit(readyTimeout([St EXCEPT !.envFault = TRUE], p))

\* The launched process begins to listen.
upstreamListening ==
    /\ launched /\ ~up
    /\ Commit([St EXCEPT !.up = TRUE])

\* A tick of initIdleChecker on which checkIdleService finds the service
\* idle.  Time is not modelled: a tick may come any time after the last
\* access, so now - lastAccessTime > idleTimeout can hold at any tick.
checkIdleService ==
    /\ ~proxyOnly
    /\ status = "online" /\ activeConnections = 0
    /\ Commit([St EXCEPT !.status = "stopping", !.startTime = FALSE,
                         !.stopsInFlight = @ + 1, !.stopCmdCount = @ + 1])

\* The same tick with the clock modelled: the full condition of
\* checkIdleService.
idleElapsed(s) == s.now - s.lastAccessTime > idleTimeout

noConnectionsAlways(s) == TRUE

noConnections(s) == s.activeConnections = 0

checkIdleService_timed ==
    /\ ~proxyOnly
    /\ status = "online" /\ noConnections(St) /\ idleElapsed(St)
    /\ Commit([St EXCEPT !.status = "stopping", !.startTime = FALSE,
                         !.stopsInFlight = @ + 1, !.stopCmdCount = @ + 1])

\* The clock advances by one reaper interval.
Tick ==
    /\ now < MaxTime
    /\ Commit([St EXCEPT !.now = @ + 1])

\* commands.stop exits: ServiceManager.stop sets offline on both branches and
\* the reaper's finally sets it again.
stopSettledOnlyOnSuccess(s, exitOk) ==
    [s EXCEPT !.status = IF exitOk THEN "offline" ELSE @]

stopSettled(s, exitOk) ==
    [s EXCEPT !.status = "offline"]

stopCommandDone(exitOk) ==
    /\ stopsInFlight > 0
    /\ Commit(stopSettled([St EXCEPT !.stopsInFlight = @ - 1,
                                     !.up = IF exitOk THEN FALSE ELSE @,
                                     !.launched = IF exitOk THEN FALSE ELSE @,
                                     !.envFault = @ \/ ~exitOk], exitOk))

\* upgrade + open of a client WebSocket (main or port-bound listener: the
\* two open handlers are the same code).
wsOpenHandler(s0, w) ==
    LET s == [arrive(s0, w, "ws") EXCEPT !.activeConnections = @ + 1,
                                         !.held[w] = @ + 1]
    IN IF needsStartWs(s0.status)
       THEN startServiceAndProxy(s, w)
       ELSE connectBackend(s, w)

wsOpen(w) ==
    /\ MayArrive(w)
    /\ Commit(wsOpenHandler(St, w))

\* The client closes its WebSocket.
wsClientClose(w) ==
    /\ kind[w] = "ws" /\ ~clientGone[w]
    /\ Commit(wsCloseHandler(St, w))

\* ------------------------------------------------------- WebSocket bridge
\* backendWs.send(buffer) of the `ws` package: a Buffer goes out as a binary
\* frame whatever the flag of the message it was made from.
backendSend(m, whole) == [id |-> m.id, binary |-> TRUE, intact |-> whole]

RECURSIVE sendAll(_, _)
sendAll(q, whole) ==
    IF q = <<>> THEN <<>> ELSE <<backendSend(Head(q), whole)>> \o sendAll(Tail(q), whole)

\* The drain loop of backendWs 'open': messageQueue.shift() / backendWs.send
\* until the queue is empty.  The queue holds Buffer.from(message) views of
\* ArrayBuffers that uWebSockets.js hands out for the duration of the message
\* callback only: `whole` tells whether their bytes are still there.
flushQueue(s, w, whole) ==
    [s EXCEPT !.upstreamGot[w] = @ \o sendAll(s.messageQueue[w], whole),
              !.messageQueue[w] = <<>>]

\* backendWs 'open'.
backendOpen(w) ==
    /\ pc[w] = "ws_connecting" /\ up
    /\ \E whole \in (IF messageQueue[w] = <<>> THEN {TRUE} ELSE BOOLEAN) :
          Commit([flushQueue(St, w, whole) EXCEPT
                     !.pc[w] = IF clientGone[w] THEN "ws_orphan" ELSE "ws_bridged"])

RECURSIVE totalLen(_, _)
totalLen(f, S) ==
    IF S = {} THEN 0
    ELSE LET p == CHOOSE q \in S : TRUE IN Len(f[p]) + totalLen(f, S \ {p})

\* The message handler of the client WebSocket (`_isBinary` is not used).
wsMessage(w, isBinary) ==
    /\ kind[w] = "ws" /\ ~clientGone[w]
    /\ totalLen(clientSent, Procs) < MaxMsgs
    /\ Commit(LET m == [id |-> Len(clientSent[w]) + 1, binary |-> isBinary]
                  s == [St EXCEPT !.clientSent[w] = Append(@, m)]
              IN IF pc[w] = "ws_bridged"
                 THEN [s EXCEPT !.upstreamGot[w] = Append(@, backendSend(m, TRUE)),
                                !.lastAccessTime = s.now]
                 ELSE [s EXCEPT !.messageQueue[w] = Append(@, m)])

\* ws.send(data, isBinary, false) of uWebSockets.js: 1 sent, 0 accepted with
\* backpressure building up, 2 dropped at the backpressure limit.
SendResults(s, w) == IF s.clientCongested[w] THEN {0, 2} ELSE {1, 0}

wsSend(s, w, m, result) ==
    IF result = 2 THEN s
    ELSE [s EXCEPT !.clientGot[w] = Append(@, m),
                   !.clientCongested[w] = @ \/ (result = 0)]

\* backendWs 'message' on the main listener, with its drainHandler run by
\* ws.cork at once.
backendMessage_main(s, w, m, r1, r2) ==
    LET s1 == wsSend(s, w, m, r1)
    IN IF r1 # 0 THEN s1
       ELSE LET s2 == wsSend([s1 EXCEPT !.backendPaused[w] = TRUE], w, m, r2)
            IN IF r2 # 0 THEN [s2 EXCEPT !.backendPaused[w] = FALSE] ELSE s2

\* backendWs 'message' on a port-bound listener: the result of ws.send is
\* not looked at.
backendMessage_port(s, w, m, r1) == wsSend(s, w, m, r1)

backendMessage(w, isBinary, r1, r2) ==
    /\ pc[w] = "ws_bridged" /\ ~clientGone[w] /\ ~backendPaused[w]
    /\ totalLen(upstreamSent, Procs) < MaxMsgs
    /\ r1 \in SendResults(St, w)
    /\ r2 \in (IF r1 = 0 /\ wsListener = "main" THEN {0, 2} ELSE {1})
    /\ Commit(LET m == [id |-> Len(upstreamSent[w]) + 1, binary |-> isBinary]
                  s == [St EXCEPT !.upstreamSent[w] = Append(@, m)]
              IN IF wsListener = "main" THEN backendMessage_main(s, w, m, r1, r2)
                 ELSE backendMessage_port(s, w, m, r1))

\* The client socket has sent its buffered data (uWS `drain`): the gateway
\* registers no drain handler.
clientDrain(w) ==
    /\ kind[w] = "ws" /\ ~clientGone[w] /\ clientCongested[w]
    /\ Commit([St EXCEPT !.clientCongested[w] = FALSE])

\* backendWs 'error' (followed by its 'close', which finds `closing` set).
backendError(w) ==
    /\ pc[w] \in {"ws_connecting", "ws_bridged", "ws_orphan"}
    /\ Commit([wsClose(St, w) EXCEPT !.pc[w] = "done"])

\* backendWs 'close'.
backendClose(w) ==
    /\ pc[w] \in {"ws_bridged", "ws_orphan"}
    /\ Commit([wsClose(St, w) EXCEPT !.pc[w] = "done"])

\* -------------------------------------------------------- request headers
\* A header value is a sequence of characters; CR and LF stand for "\r" and
\* "\n", "a" for any other character.
Chars == {"a", "CR", "LF"}

HeaderValues == UNION {[1..n -> Chars] : n \in 0..MaxHeaderLen}

\* Header names as uWebSockets.js reports them (lower case).
HeaderNames == {"host", "x-test"}

\* targetUrl.host, from the configuration.
targetHost == <<"a">>

replaceCROnly(value) == SelectSeq(value, LAMBDA c : c # "CR")

\* value.replace(/[\r\n]/g, '')
replaceCRLF(value) == SelectSeq(value, LAMBDA c : c \notin {"CR", "LF"})

\* req.forEach((key, value) => { headers[key] = value.replace(/[\r\n]/g, '') })
extractHeaders(raw) == [k \in DOMAIN raw |-> replaceCRLF(raw[k])]

\* forwardProxyRequest: { ...headers } without connection and keep-alive, with
\* host set to the upstream's.
proxyHeaders(h) ==
    [k \in (DOMAIN h \ {"connection", "keep-alive"}) \cup {"host"} |->
        IF k = "host" THEN targetHost ELSE h[k]]

\* The WebSocket open handler: every client header except the skipHeaders,
\* plus Host set to the upstream's.
skipHeaders == {"host", "connection", "upgrade", "sec-websocket-key", "sec-websocket-version"}

backendHeaders(h) ==
    [k \in (DOMAIN h \ skipHeaders) \cup {"Host"} |->
        IF k = "Host" THEN targetHost ELSE h[k]]

\* handleRequest, handlePortBindingRequest or a WebSocket upgrade handler reads
\* the headers of an incoming request.
readHeaders(path, raw) ==
    /\ headerPath = "none"
    /\ Commit([St EXCEPT !.headerPath = path, !.rawHeaders = raw,
                         !.headers = extractHeaders(raw)])

\* forwardProxyRequest issues the upstream request.
sendProxyRequest ==
    /\ headerPath \in {"http_main", "http_port"} /\ sentHeaders = <<>>
    /\ Commit([St EXCEPT !.sentHeaders = proxyHeaders(headers)])

\* The WebSocket open handler creates the upstream socket.
sendBackendHandshake ==
    /\ headerPath \in {"ws_main", "ws_port"} /\ sentHeaders = <<>>
    /\ Commit([St EXCEPT !.sentHeaders = backendHeaders(headers)])

NextHeaders ==
    \/ \E path \in {"http_main", "http_port", "ws_main", "ws_port"},
          raw \in [HeaderNames -> HeaderValues] : readHeaders(path, raw)
    \/ sendProxyRequest
    \/ sendBackendHandshake

SpecHeaders == Init /\ [][NextHeaders]_vars

\* The header names a client may send, hop-by-hop ones among them; which of
\* them a request carries varies, their values do not matter here.
RequestHeaderNames ==
    {"host", "x-test", "connection", "keep-alive", "transfer-encoding", "upgrade"}

NextHop ==
    \/ \E path \in {"http_main", "http_port"}, names \in SUBSET RequestHeaderNames :
          readHeaders(path, [k \in names |-> <<"a">>])
    \/ sendProxyRequest

SpecHop == Init /\ [][NextHop]_vars

\* ------------------------------------------- route selection by Host header
\* Host header values are strings over a letter in both cases, the colon and
\* a digit; the configuration routes the hostname "a" to the service.
HostChars == {"a", "A", ":", "8"}

HostHeaders == UNION {[1..n -> HostChars] : n \in 0..MaxHostLen}

configuredHost == <<"a">>

\* value.split(':')[0]
RECURSIVE splitColon0(_)
splitColon0(v) ==
    IF v = <<>> \/ Head(v) = ":" THEN <<>> ELSE <<Head(v)>> \o splitColon0(Tail(v))

\* String.prototype.toLowerCase
toLowerCase(v) == [i \in 1..Len(v) |-> IF v[i] = "A" THEN "a" ELSE v[i]]

\* this.hostnameRoutes.get(hostname): a Map lookup, by string equality.
hostnameRoutesGet(hostname) == IF hostname = configuredHost THEN "app" ELSE NoRoute

\* const hostname = req.getHeader('host')?.split(':')[0] || '';
\* const mapping = this.hostnameRoutes.get(hostname);
getMapping(v) == hostnameRoutesGet(splitColon0(v))

\* handleRequest with the Host header v.
handleRequest_host(r, v) ==
    /\ MayArrive(r)
    /\ Commit(LET s == [St EXCEPT !.hostHeader[r] = v, !.mapping[r] = getMapping(v)]
              IN IF getMapping(v) = NoRoute
                 THEN [respond([s EXCEPT !.kind[r] = "http"], r, "404") EXCEPT !.pc[r] = "done"]
                 ELSE handleRequest_found(s, r))

\* The upgrade handler of the main listener with the Host header v, and the
\* open handler that follows a successful upgrade.
upgrade_host(w, v) ==
    /\ MayArrive(w)
    /\ Commit(LET s == [St EXCEPT !.hostHeader[w] = v, !.mapping[w] = getMapping(v)]
              IN IF getMapping(v) = NoRoute
                 THEN [respond([s EXCEPT !.kind[w] = "http"], w, "404") EXCEPT !.pc[w] = "done"]
                 ELSE wsOpenHandler(s, w))

NextRoute ==
    \/ \E r \in Procs, v \in HostHeaders : handleRequest_host(r, v)
    \/ \E w \in Procs, v \in HostHeaders : upgrade_host(w, v)

SpecRoute == Init /\ [][NextRoute]_vars

\* ------------------------------------------------------------- admin API
\* AdminApiHandler.stopService: 400 unless the service is online; else
\* stopping, and the stop command runs.
adminCanStopAlsoStarting(st) == st \in {"online", "starting"}

adminCanStop(st) == st = "online"

adminStopService(a) ==
    /\ MayArrive(a)
    /\ Commit(LET s == [St EXCEPT !.kind[a] = "admin", !.arrivedStatus[a] = status]
              IN IF ~adminCanStop(status)
                 THEN [s EXCEPT !.pc[a] = "done", !.resp[a] = "400"]
                 ELSE [s EXCEPT !.status = "stopping", !.startTime = FALSE,
                                !.stopCmdCount = @ + 1, !.pc[a] = "admin_stop"])

\* The stop command of stopService exits: ServiceManager.stop sets offline;
\* on a non-zero exit it throws and the catch of stopService sets online.
adminStopDone(a, exitOk) ==
    /\ pc[a] = "admin_stop"
    /\ Commit([St EXCEPT !.status = IF exitOk THEN "offline" ELSE "online",
                         !.resp[a] = IF exitOk THEN "200" ELSE "500",
                         !.up = IF exitOk THEN FALSE ELSE @,
                         !.launched = IF exitOk THEN FALSE ELSE @,
                         !.envFault = @ \/ ~exitOk,
                         !.pc[a] = "done"])

\* AdminApiHandler.startService: 400 when online or starting; else starting,
\* ServiceManager.start is called without being awaited and the port polling
\* begins.
adminStartService(a) ==
    /\ MayArrive(a)
    /\ Commit(LET s == [St EXCEPT !.kind[a] = "admin", !.arrivedStatus[a] = status]
              IN IF status \in {"online", "starting"}
                 THEN [s EXCEPT !.pc[a] = "done", !.resp[a] = "400"]
                 ELSE ServiceManager_start(
                          [s EXCEPT !.status = "starting", !.calledStart[a] = TRUE,
                                    !.adminPoll[a] = "polling"], a))

\* The polling loop of startService sees the port open.
adminPoll_ready(a) ==
    /\ adminPoll[a] = "polling" /\ up
    /\ Commit([St EXCEPT !.status = "online", !.startTime = TRUE, !.startCount = @ + 1,
                         !.resp[a] = "200", !.adminPoll[a] = "done"])

\* The polling loop of startService gives up after startTimeout.
adminPoll_timeout(a) ==
    /\ adminPoll[a] = "polling" /\ ~up
    /\ Commit([St EXCEPT !.status = "offline", !.resp[a] = "503",
                         !.envFault = TRUE, !.adminPoll[a] = "done"])

AdminApi ==
    \/ \E a \in Procs : adminStopService(a)
    \/ \E a \in Procs, b \in BOOLEAN : adminStopDone(a, b)
    \/ \E a \in Procs : adminStartService(a)
    \/ \E a \in Procs : adminPoll_ready(a)
    \/ \E a \in Procs : adminPoll_timeout(a)

\* Every handler and environment event except the reaper's tick.
Handlers ==
    \/ \E r \in Procs : handleRequest(r)
    \/ \E r \in Procs : handlePortBindingRequest(r)
    \/ \E r \in Procs : handleServiceStart_onData(r)
    \/ \E r \in Procs : handleServiceWithWait_onData(r)
    \/ \E r \in Procs : handleServiceWithWait_timeout(r)
    \/ \E r \in Procs : handleServiceWithWait_resume(r)
    \/ \E r \in Procs : handleDirectProxy_onData(r)
    \/ \E r \in Procs : onAborted_early(r)
    \/ \E r \in Procs : onAborted_forward(r)
    \/ \E r \in Procs, code \in {"200", "101"} : upstreamResponse(r, code)
    \/ \E r \in Procs : upstreamEnd(r)
    \/ \E r \in Procs : proxyReqError(r)
    \/ \E r \in Procs : proxyResError(r)
    \/ \E r \in Procs : lateUpstreamError(r)
    \/ \E p \in Procs, b \in BOOLEAN : isRunningDone_owner(p, b)
    \/ \E p \in Procs, b \in BOOLEAN : startCommandDone(p, b)
    \/ \E p \in Procs, b \in BOOLEAN : isRunningDone_waiter(p, b)
    \/ \E p \in Procs : checkTcpPort_ready(p)
    \/ \E p \in Procs : checkTcpPort_timeout(p)
    \/ upstreamListening
    \/ \E b \in BOOLEAN : stopCommandDone(b)
    \/ \E w \in Procs : wsOpen(w)
    \/ \E w \in Procs : wsClientClose(w)
    \/ \E w \in Procs : backendOpen(w)
    \/ \E w \in Procs : backendError(w)
    \/ \E w \in Procs : backendClose(w)

Next ==
    \/ Handlers
    \/ checkIdleService

Spec == Init /\ [][Next]_vars

\* The gateway with its admin API, for a service that may be proxyOnly.
InitAdmin == (\E po \in BOOLEAN : InitOf(po)) /\ wsListener = "main"

NextAdmin ==
    \/ Handlers
    \/ checkIdleService
    \/ AdminApi

SpecAdmin == InitAdmin /\ [][NextAdmin]_vars

\* Gateway.cleanup, called when the gateway is told to exit: the stop command
\* is run for the service when its status is online or starting.
Gateway_cleanup ==
    /\ ~cleaningUp
    /\ Commit(LET s == [St EXCEPT !.cleaningUp = TRUE]
              IN IF status = "online" \/ status = "starting"
                 THEN [s EXCEPT !.stopsInFlight = @ + 1, !.stopCmdCount = @ + 1]
                 ELSE s)

\* The gateway, for a service that may be proxyOnly, with its shutdown.
NextShutdown ==
    \/ Next
    \/ Gateway_cleanup

SpecShutdown == InitAdmin /\ [][NextShutdown]_vars

\* The gateway with the body chunks of the upstream's responses.
NextStream ==
    \/ Next
    \/ \E r \in Procs, ok \in BOOLEAN : proxyResData(r, ok)
    \/ \E r \in Procs : onWritable(r)

SpecStream == Init /\ [][NextStream]_vars

\* WebSocket sessions only, on the main or on a port-bound listener, with the
\* messages they carry.
InitBridge == InitOf(FALSE) /\ wsListener \in {"main", "port"}

NextBridge ==
    \/ \E w \in Procs : wsOpen(w)
    \/ \E p \in Procs, b \in BOOLEAN : isRunningDone_owner(p, b)
    \/ \E p \in Procs, b \in BOOLEAN : startCommandDone(p, b)
    \/ \E p \in Procs : checkTcpPort_ready(p)
    \/ \E p \in Procs : checkTcpPort_timeout(p)
    \/ upstreamListening
    \/ \E w \in Procs : wsClientClose(w)
    \/ \E w \in Procs : backendOpen(w)
    \/ \E w \in Procs : backendError(w)
    \/ \E w \in Procs : backendClose(w)
    \/ \E w \in Procs, b \in BOOLEAN : wsMessage(w, b)
    \/ \E w \in Procs, b \in BOOLEAN, r1, r2 \in {0, 1, 2} : backendMessage(w, b, r1, r2)
    \/ \E w \in Procs : clientDrain(w)

SpecBridge == InitBridge /\ [][NextBridge]_vars

\* ServiceManager.start under NCallers overlapping callers: HTTP requests on
\* the main listener that all arrive while the service is offline.
InitLocks == InitFor(FALSE, Callers) /\ wsListener = "main"

NextLocks ==
    \/ \E r \in Callers : handleRequest(r)
    \/ \E r \in Callers : handleServiceStart_onData(r)
    \/ \E r \in Callers : handleDirectProxy_onData(r)
    \/ \E p \in Callers, b \in BOOLEAN : isRunningDone_owner(p, b)
    \/ \E p \in Callers, b \in BOOLEAN : startCommandDone(p, b)
    \/ \E p \in Callers, b \in BOOLEAN : isRunningDone_waiter(p, b)
    \/ \E p \in Callers : checkTcpPort_ready(p)
    \/ \E p \in Callers : checkTcpPort_timeout(p)
    \/ upstreamListening
    \/ \E r \in Callers, code \in {"200", "101"} : upstreamResponse(r, code)
    \/ \E r \in Callers : upstreamEnd(r)
    \/ \E r \in Callers : proxyReqError(r)

SpecLocks == InitLocks /\ [][NextLocks]_vars

\* The gateway with its clock: the reaper acts only when the idle time has
\* really passed.
NextTimed ==
    \/ Handlers
    \/ \E r \in Procs : handleRequest_notFound(r)
    \/ checkIdleService_timed
    \/ Tick

SpecTimed == Init /\ [][NextTimed]_vars

\* setInterval keeps ticking and a stop command terminates.
SpecTimedFair ==
    /\ SpecTimed
    /\ WF_vars(Tick)
    /\ WF_vars(checkIdleService_timed)
    /\ WF_vars(\E b \in BOOLEAN : stopCommandDone(b))

\* ----------------------------------------------------------------- claims
\* An HTTP request is over when its handler chain has ended or its client
\* aborted the forward; a WebSocket session is over when the client socket
\* has closed.
Terminated(p) ==
    \/ kind[p] = "http" /\ pc[p] \in {"done", "fwd_gone"}
    \/ kind[p] = "ws" /\ clientGone[p]

PullUpInFlight == \E p \in Procs : pc[p] \in {"sm_await", "sm_wcheck", "sm_own", "ready_wait"}

Forwards(r) == kind[r] = "http" /\ pc[r] # "fwd" /\ pc'[r] = "fwd"

Arrives(p) == pc[p] = "idle" /\ pc'[p] # "idle"

\* C1: activeConnections is never negative, under any interleaving of HTTP
\* forwards, upstream end/error events, client aborts and WebSocket
\* open/close callbacks.
C1_NonNegative == activeConnections >= 0

\* An aborted forward whose upstream request failed afterwards (cleanup ran
\* twice) beside a closed WebSocket session.
C1_Witness ==
    \E r, w \in Procs :
        /\ kind[r] = "http" /\ pc[r] = "done" /\ clientGone[r] /\ cleaned[r]
        /\ kind[w] = "ws" /\ clientGone[w]
        /\ activeConnections = 0

\* C2: every increment of activeConnections is matched by exactly one
\* decrement on every termination path, so once every session has terminated
\* the counter is 0.
C2_Balanced ==
    /\ \A p \in Procs : Terminated(p) => held[p] = 0
    /\ (\A p \in Procs : kind[p] # "none" => Terminated(p)) => activeConnections = 0

\* C3: among overlapping calls of ServiceManager.start the start command runs
\* at most once and all callers see the same outcome.
C3_SingleFlight == epCmds <= 1 /\ Cardinality(epOut) <= 1

\* C4: N >= 2 concurrent HTTP requests for the offline service, in an
\* environment that runs the commands successfully and answers every upstream
\* request: the start command runs exactly once, every request gets the
\* upstream's response, and startCount grows by exactly 1.
C4_ConcurrentPullUp ==
    ( /\ ~envFault /\ stopCmdCount = 0 /\ NProc >= 2
      /\ \A p \in Procs : kind[p] = "http" /\ pc[p] = "done"
                          /\ arrivedStatus[p] \in {"offline", "starting"} )
    => ( /\ startCmdCount = 1
         /\ startCount = 1
         /\ \A p \in Procs : resp[p] = "upstream" )

\* C5: a start command failure answers the triggering request with 503 (closes
\* the WebSocket client) and the status is not left in starting.
C5_StartFailure ==
    /\ \A p \in Procs : outcome[p] = "start_failed" =>
           /\ clientGone[p] \/ (kind[p] = "http" /\ resp[p] = "503")
           /\ held[p] = 0
    /\ status = "starting" => PullUpInFlight

\* C6: when the readiness wait times out the status is set to offline, the
\* HTTP request gets 503 (the WebSocket client is closed) and nothing is
\* forwarded upstream for it.
C6_ReadyTimeout ==
    [][\A p \in Procs : outcome'[p] = "ready_timeout" =>
          /\ outcome[p] # "ready_timeout" => status' = "offline"
          /\ pc'[p] = "done" /\ held'[p] = 0 /\ ~cleaned'[p]
          /\ clientGone'[p] \/ (kind'[p] = "http" /\ resp'[p] = "503")]_vars

\* An HTTP request and a WebSocket session both ended by a readiness timeout.
C6_Witness ==
    \E r, w \in Procs :
        /\ kind[r] = "http" /\ outcome[r] = "ready_timeout" /\ resp[r] = "503"
        /\ kind[w] = "ws" /\ outcome[w] = "ready_timeout" /\ clientGone[w]
        /\ startCmdCount > 0 /\ launched /\ ~up
        /\ status = "offline"

\* C7: after a failed pull-up (none in flight, the service not brought online
\* since), the next request or WebSocket session goes down the start path.
C7_RetryAfterFailure ==
    [][\A p \in Procs :
          ( /\ Arrives(p)
            /\ \E q \in Procs : outcome[q] \in {"start_failed", "ready_timeout"}
            /\ ~PullUpInFlight
            /\ status \notin {"online", "stopping"} )
          => (pc'[p] = "body_start" \/ calledStart'[p])]_vars

\* C8: a request or WebSocket session that arrives while the status is
\* starting never calls ServiceManager.start and never runs the start command.
C8_NoSecondStart ==
    \A p \in Procs : arrivedStatus[p] = "starting" => ~calledStart[p] /\ lockState[p] = "none"

\* A request that arrived during starting and was answered while the pull-up
\* of another session was still in flight.
C8_Witness ==
    \E p \in Procs : /\ arrivedStatus[p] = "starting" /\ kind[p] = "http"
                      /\ pc[p] = "done" /\ resp[p] # "none" /\ PullUpInFlight

\* C9: an HTTP request that arrived during starting is forwarded upstream only
\* once the status is online.
C9_ForwardAfterOnline ==
    [][\A r \in Procs : (Forwards(r) /\ arrivedStatus[r] = "starting") => status' = "online"]_vars

\* C10: an HTTP request that arrived during stopping (either listener) is not
\* forwarded while the service is stopping: it is forwarded only after it
\* started the service again.
C10_WaitWhileStopping ==
    [][\A r \in Procs : (Forwards(r) /\ arrivedStatus[r] = "stopping")
                          => (status' # "stopping" /\ calledStart'[r])]_vars

\* The request or upgrade was resolved to the service.
Routed(p) == kind[p] # "none" /\ arrivedStatus[p] # "none"

\* An SSE stream (a forwarded request whose client is still there) or a
\* WebSocket session is open.
SessionOpen(p) ==
    \/ kind[p] = "http" /\ pc[p] \in {"fwd", "streaming"}
    \/ kind[p] = "ws" /\ ~clientGone[p]

\* C11: the reaper moves the service to stopping and runs the stop command
\* only at a tick where status is online, activeConnections is 0 and more than
\* idleTimeout has passed since the last access: never while an SSE stream or
\* a WebSocket session is open, and never within idleTimeout of a request's
\* arrival.
C11_ReapOnlyWhenIdle ==
    [][(status' = "stopping" /\ status # "stopping") \/ stopCmdCount' # stopCmdCount
         => /\ status = "online" /\ status' = "stopping"
            /\ stopCmdCount' = stopCmdCount + 1
            /\ activeConnections = 0
            /\ now - lastAccessTime > idleTimeout
            /\ \A p \in Procs : ~SessionOpen(p)
            /\ \A p \in Procs : Routed(p) => now - arrivedAt[p] > idleTimeout]_vars

\* The reaper stopped the service after an HTTP request was answered and a
\* WebSocket session was closed.
C11_Witness ==
    /\ status = "stopping" /\ stopCmdCount = 1
    /\ \E r, w \in Procs :
          /\ kind[r] = "http" /\ pc[r] = "done" /\ resp[r] = "upstream"
          /\ kind[w] = "ws" /\ clientGone[w] /\ outcome[w] = "online"

\* No request or session is in flight and none will come.
Quiescent == \A p \in Procs : pc[p] # "idle" /\ Terminated(p)

\* The service is online without connections, nothing is in flight and the
\* clock bound leaves room for idleTimeout to pass.
IdleOnline ==
    /\ status = "online" /\ activeConnections = 0 /\ ~proxyOnly
    /\ Quiescent
    /\ lastAccessTime + idleTimeout < MaxTime

C13_AccessTimeAtArrival ==
    /\ \A p \in Procs : Routed(p) => lastAccessTime >= arrivedAt[p]
    /\ lastAccessTime <= now

\* A request that arrived after the clock had advanced past an earlier
\* session's arrival, and was answered after waiting for a pull-up.
C13_Witness ==
    \E p, q \in Procs :
        /\ kind[p] = "http" /\ resp[p] = "upstream" /\ calledStart[p]
        /\ arrivedAt[p] > arrivedAt[q] /\ kind[q] # "none"
        /\ lastAccessTime = arrivedAt[p] /\ now > arrivedAt[p]

\* C14: a proxyOnly service is online in every reachable state and neither
\* its start command nor its stop command is ever executed.
C14_ProxyOnlyStaysOnline ==
    proxyOnly => status = "online" /\ startCmdCount = 0 /\ stopCmdCount = 0

\* C15: an HTTP request that arrives while the service is online goes straight
\* to the forwarding path: it never calls ServiceManager.start (so neither the
\* start nor the check command runs for it) and none of its steps changes
\* status, startCount or startTime.
C15_OnlineFastPath ==
    [][\A r \in Procs : (kind'[r] = "http" /\ arrivedStatus'[r] = "online") =>
          /\ ~calledStart'[r] /\ lockState'[r] = "none"
          /\ Arrives(r) => pc'[r] = "body_direct"
          /\ pc'[r] # pc[r] =>
                /\ status' = status /\ startCount' = startCount /\ startTime' = startTime
                /\ startCmdCount' = startCmdCount
                /\ lockState' = lockState]_vars

\* A request that arrived while online got the upstream's response.
C15_Witness ==
    \E r \in Procs : /\ kind[r] = "http" /\ arrivedStatus[r] = "online"
                     /\ pc[r] = "done" /\ resp[r] = "upstream" /\ status = "online"

\* C16: a request on the main listener whose Host has no hostname route is
\* answered 404, runs no command and leaves status, lastAccessTime,
\* activeConnections and startCount unchanged; a request that was routed to
\* the service is never answered 404 by the gateway; the routing table never
\* changes.
C16_UnknownHost404 ==
    [][/\ hostnameRoutes' = hostnameRoutes
       /\ \A r \in Procs : Arrives(r) =>
             /\ Routed(r)' <=> resp'[r] # "404"
             /\ resp'[r] = "404" => hostnameRoutes[host'[r]] = NoRoute
             /\ ~Routed(r)' =>
                   /\ pc'[r] = "done" /\ ended'[r]
                   /\ status' = status /\ lastAccessTime' = lastAccessTime
                   /\ activeConnections' = activeConnections
                   /\ startCount' = startCount /\ startTime' = startTime
                   /\ startCmdCount' = startCmdCount /\ stopCmdCount' = stopCmdCount
                   /\ lockState' = lockState /\ stopsInFlight' = stopsInFlight
       /\ \A r \in Procs : resp[r] # "404" /\ pc[r] # "idle" => resp'[r] # "404"]_vars

\* A 404 for the unknown host after the clock passed the last access, beside a
\* request that reached the service.
C16_Witness ==
    \E r, q \in Procs :
        /\ host[r] = "other.test" /\ resp[r] = "404" /\ now > lastAccessTime
        /\ kind[q] = "http" /\ Routed(q) /\ q < r /\ resp[q] = "upstream"

\* A delivered message carries the flag of the message it came from: `got` is
\* what one side received, `sent` what the other side sent.
SameFlags(got, sent) ==
    \A i \in 1..Len(got) :
        got[i].id \in 1..Len(sent) /\ got[i].binary = sent[got[i].id].binary

\* C17: every message bridged between client and upstream, in both directions,
\* on the main and on a port-bound listener, sent directly or flushed from
\* messageQueue, arrives with the binary/text flag it was sent with.
C17_FlagPreserved ==
    \A w \in Procs :
        /\ SameFlags(upstreamGot[w], clientSent[w])
        /\ SameFlags(clientGot[w], upstreamSent[w])

Ids(q) == [i \in 1..Len(q) |-> q[i].id]

\* The upstream has received, in the order of sending and once each, every
\* client message that is not waiting in messageQueue.
InOrderOnce(w) ==
    Ids(upstreamGot[w]) \o Ids(messageQueue[w]) = Ids(clientSent[w])

\* C18: in a WebSocket session whose upstream connection opens, the upstream
\* receives the client's messages in the order the client sent them, each
\* exactly once; the messages that arrived before the upstream was open are
\* queued and flushed first, in their order.
C18_ClientMessagesInOrder ==
    \A w \in Procs :
        /\ InOrderOnce(w)
        /\ pc[w] = "ws_bridged" => messageQueue[w] = <<>>
        /\ \A i \in 1..Len(upstreamGot[w]) : upstreamGot[w][i].intact

\* C19: every message received from the upstream is sent to the client exactly
\* once and in upstream order, also when a send to the client reports
\* backpressure: no message is dropped and none is sent twice.
C19_UpstreamMessagesOnce ==
    \A w \in Procs : clientGot[w] = upstreamSent[w]

\* A send to the client of session w reports backpressure in this step.
ReportsBackpressure(w) == ~clientCongested[w] /\ clientCongested'[w]

\* C20: when a send to the client reports backpressure the upstream socket is
\* paused, and once the client is writable again it is resumed: while the
\* session is open and the client writable the upstream socket is not paused.
C20_PauseAndResume ==
    [][\A w \in Procs :
          /\ ReportsBackpressure(w) => backendPaused'[w]
          /\ SessionOpen(w)' /\ ~clientCongested'[w] => ~backendPaused'[w]]_vars

\* The upstream socket of session w exists and has not been closed.
UpstreamSocketLive(w) == kind[w] = "ws" /\ pc[w] \in {"ws_connecting", "ws_bridged", "ws_orphan"}

\* C21: in a WebSocket bridge on either listener, once the client has closed
\* the upstream socket of the session is closed too (no upstream connection
\* outlives its client, also when the client closed before the upstream
\* opened), and once the upstream has closed or failed the client is closed.
C21_CloseOtherSide ==
    \A w \in Procs :
        /\ kind[w] = "ws" /\ clientGone[w] => ~UpstreamSocketLive(w)
        /\ kind[w] = "ws" /\ pc[w] = "done" => clientGone[w]

\* C22: whatever the client's header values, no header value sent to the
\* upstream contains CR or LF: in the HTTP requests of the main and of the
\* port-bound listeners and in the upstream WebSocket handshake.
C22_NoCRLFForwarded ==
    \A k \in DOMAIN sentHeaders :
        \A i \in 1..Len(sentHeaders[k]) : sentHeaders[k][i] \notin {"CR", "LF"}

\* An upstream WebSocket handshake made from client headers that held CR and
\* LF, also in the headers that are not forwarded.
C22_Witness ==
    /\ headerPath = "ws_port"
    /\ rawHeaders["x-test"] = <<"CR", "LF">>
    /\ rawHeaders["host"] = <<"a", "LF">>
    /\ sentHeaders = [k \in {"x-test", "Host"} |-> IF k = "Host" THEN targetHost ELSE <<>>]

\* The response of request r holds the write w.
Wrote(r, w) == \E i \in 1..Len(wrote[r]) : wrote[r][i] = w

\* C23: an upstream failure before any response byte was written gives the
\* client a 502; a failure after the upstream's status line was written makes
\* the gateway write nothing more in its own name (no status line, no body):
\* it only terminates the response.
C23_UpstreamFailure ==
    \A r \in Procs :
        /\ kind[r] = "http" /\ pc[r] = "done" /\ cleaned[r] /\ ~clientGone[r]
              => resp[r] \in {"upstream", "502"}
        /\ resp[r] = "502" => wrote[r] = <<"status", "text", "end">>
        /\ resp[r] = "upstream" => ~Wrote(r, "text")

\* A chunk is written to the response of r in this step.
WritesChunk(r) == Len(wrote'[r]) > Len(wrote[r]) /\ wrote'[r][Len(wrote'[r])] = "chunk"

\* C27: when a write of a chunk to the client reports backpressure the
\* upstream response stream is paused; no chunk is written while it is paused;
\* when the client's writable callback fires the stream is resumed, so it is
\* not paused while the client is writable and the response is streaming.
C27_StreamBackpressure ==
    [][\A r \in Procs :
          /\ WritesChunk(r) /\ clientCongested'[r] => proxyResPaused'[r]
          /\ WritesChunk(r) => ~proxyResPaused[r] /\ ~clientCongested[r]
          /\ pc'[r] = "streaming" /\ ~clientCongested'[r] => ~proxyResPaused'[r]]_vars

\* A response whose first chunk went out and whose second chunk met
\* backpressure: the stream is paused until the client is writable.
C27_Witness ==
    \E r \in Procs :
        /\ pc[r] = "streaming" /\ proxyResPaused[r] /\ clientCongested[r]
        /\ wrote[r] = <<"status", "chunk", "chunk">>

AbortedTrigger(r) == kind[r] = "http" /\ calledStart[r] /\ clientGone[r]

\* C25: when the client aborts the request that triggered a pull-up, the
\* pull-up is not cancelled: it runs to its end (start command and readiness
\* wait), and when it is over the service is online or offline, not left in
\* starting.
C25_AbortDoesNotCancelStart ==
    \A r \in Procs : AbortedTrigger(r) /\ pc[r] = "done" =>
        /\ outcome[r] \in {"online", "start_failed", "ready_timeout"}
        /\ ~PullUpInFlight => status # "starting"

\* C28: Gateway.cleanup runs the stop command of the service exactly when the
\* service is not proxyOnly and its status is online or starting; for a
\* proxyOnly service it runs none.
C28_CleanupStops ==
    [][cleaningUp' /\ ~cleaningUp =>
          stopCmdCount' = IF ~proxyOnly /\ status \in {"online", "starting"}
                          THEN stopCmdCount + 1 ELSE stopCmdCount]_vars

\* C29: when the stop command exits non-zero, whether the idle reaper or the
\* admin stop endpoint ran it, the status of the service still becomes
\* offline.
C29_StopFailureOffline ==
    [][/\ stopsInFlight' < stopsInFlight => status' = "offline"
       /\ \A a \in Procs : pc[a] = "admin_stop" /\ pc'[a] = "done" => status' = "offline"]_vars

\* C30: the status becomes stopping, and the reaper or the admin stop
\* endpoint runs the stop command, only in a step that begins with the status
\* online: never from offline, from starting or from stopping.
C30_StoppingOnlyFromOnline ==
    [][(status' = "stopping" /\ status # "stopping") \/ stopCmdCount' # stopCmdCount
          => status = "online" /\ status' = "stopping"
             /\ stopCmdCount' = stopCmdCount + 1]_vars

\* The admin stop endpoint has put the service into stopping and a second
\* stop call, made meanwhile, was refused.
C30_Witness ==
    \E a, b \in Procs :
        /\ pc[a] = "admin_stop" /\ status = "stopping"
        /\ kind[b] = "admin" /\ arrivedStatus[b] = "stopping" /\ resp[b] = "400"

\* C31: every change of the status into online is made from starting: no
\* completion of an HTTP or WebSocket pull-up, of an admin start, and no
\* failure handling of an admin stop makes it online from offline or from
\* stopping.
C31_OnlineOnlyFromStarting ==
    [][status' = "online" /\ status # "online" => status = "starting"]_vars

\* C32: every change of the status into starting is made from offline: no
\* handler, the ones resuming after a wait for stopping and the admin start
\* endpoint included, makes it starting from online or from stopping.
C32_StartingOnlyFromOffline ==
    [][status' = "starting" /\ status # "starting" => status = "offline"]_vars

\* The start operations in flight: a caller whose own start promise runs
\* (isRunning check, start command), or whose readiness loop polls the port.
\* A caller that merely awaits another caller's promise shares that
\* caller's operation.
StartOperations ==
    {p \in Procs : pc[p] \in {"sm_own", "ready_wait"} \/ adminPoll[p] = "polling"}

\* C33: whenever the status is starting, exactly one start operation (start
\* command plus readiness wait) is in flight: never none, never two at once.
C33_OneStartInFlight ==
    status = "starting" => Cardinality(StartOperations) = 1

\* C34: the gateway opens the upstream WebSocket connection of a client
\* session only while the status is online: a session opened while the status
\* is offline, starting or stopping first performs or awaits start and
\* readiness.
C34_ConnectOnlyWhenOnline ==
    [][\A w \in Procs :
          kind'[w] = "ws" /\ pc[w] # "ws_connecting" /\ pc'[w] = "ws_connecting"
              => status' = "online"]_vars

\* C35: once all overlapping calls of ServiceManager.start have returned,
\* startingLocks holds no entry for the service; and no caller removes the
\* sentinel of another caller's attempt that still runs, so the entry of a
\* running attempt stays in the map until that attempt has ended.
C35_SentinelRemoved ==
    /\ ~InFlightStart(St) => startingLocks = None
    /\ \A p \in DOMAIN lockState :
           lockState[p] \in {"checking", "executing"} => startingLocks = p

\* The Host header value v names the hostname h: v is h in any case of the
\* letters, alone or followed by a colon and a port number.
NamesHost(v, h) ==
    \E k \in 0..Len(v) :
        /\ toLowerCase(SubSeq(v, 1, k)) = h
        /\ \/ k = Len(v)
           \/ /\ k + 1 < Len(v)
              /\ v[k + 1] = ":"
              /\ \A i \in (k + 2)..Len(v) : v[i] = "8"

\* C36: on the main listener a request or WebSocket upgrade whose Host
\* header, port-stripped and lower-cased, equals a configured hostname
\* resolves to that hostname's route.
C36_HostSelectsRoute ==
    \A p \in Procs :
        mapping[p] # "unset" /\ NamesHost(hostHeader[p], configuredHost)
            => mapping[p] = hostnameRoutesGet(configuredHost)

HopByHop == {"connection", "keep-alive", "transfer-encoding", "upgrade"}

\* C37: the upstream request of forwardProxyRequest carries every client
\* header that is not hop-by-hop, carries none of Connection, Keep-Alive,
\* Transfer-Encoding and Upgrade, and its Host is the route target's.
C37_HopByHopStripped ==
    headerPath \in {"http_main", "http_port"} /\ sentHeaders # <<>> =>
        /\ DOMAIN sentHeaders \cap HopByHop = {}
        /\ \A k \in DOMAIN headers \ (HopByHop \cup {"host"}) :
               k \in DOMAIN sentHeaders /\ sentHeaders[k] = headers[k]
        /\ sentHeaders["host"] = targetHost

\* C38: for a service that is not proxyOnly, startTime is defined exactly
\* when the status is online, under any interleaving of pull-ups, reaper
\* ticks and admin start and stop calls.
C38_StartTimeIffOnline ==
    ~proxyOnly => (startTime <=> status = "online")

\* C39: every change of the status into offline is made from stopping (a
\* stop completed) or from starting (a start or a readiness wait failed),
\* never from online; and a stop command that completes does not overwrite a
\* status of starting or online that was set after the stop began.
C39_OfflineOnlyFromStoppingOrStarting ==
    [][/\ status' = "offline" /\ status # "offline" => status \in {"stopping", "starting"}
       /\ stopsInFlight' < stopsInFlight /\ status \in {"starting", "online"}
              => status' = status]_vars

\* The stop commands that run: those of the reaper and of Gateway.cleanup,
\* and those of the admin stop endpoint.
StopsRunning == stopsInFlight + Cardinality({a \in Procs : pc[a] = "admin_stop"})

\* C40: at most one stop command of the service is in flight at any time:
\* while a stop command runs, whoever issued it (idle reaper, admin stop
\* endpoint, Gateway.cleanup), no further stop command is issued and
\* commands.start is not executed.
C40_OneStopAtATime ==
    [][StopsRunning > 0 =>
          stopCmdCount' = stopCmdCount /\ startCmdCount' = startCmdCount]_vars

====
